---- MODULE Spec2Model ----
(***************************************************************************)
(* Session / escalation engine of faqBot (src/main.py).                    *)
(*                                                                         *)
(* The bot runs on one asyncio event loop.  Every inbound update is        *)
(* handled in its own task and every reminder loop is a task of its own;   *)
(* a task runs without interruption from one `await` that really suspends  *)
(* (a gateway call, asyncio.sleep) to the next.  Each action below is one  *)
(* such uninterrupted run.  `await state.clear()` / `state.set_state()` on *)
(* MemoryStorage and `await schedule_support_reminder(...)` contain no     *)
(* suspending await and therefore belong to the run they appear in.        *)
(*                                                                         *)
(* send_text / send_text_by_chat / send_answer suspend twice in a row, in  *)
(* bot.delete_message and in the send; between the two only               *)
(* LAST_BOT_MESSAGE_ID is touched, and a failed delete is swallowed, so    *)
(* for the session and escalation state the two awaits are one suspension, *)
(* modelled here by the program point "send".  The same holds for the      *)
(* trailing `await call.answer()` of the callback handlers, after which    *)
(* no statement runs.                                                      *)
(***************************************************************************)
EXTENDS Integers, Sequences, FiniteSets, TLC

(* ------------------------------ bounds -------------------------------- *)
MaxInbound  == 3      \* inbound updates delivered in one behaviour
MaxHandlers == 2      \* update handlers in flight at the same time
MaxTasks    == 2      \* reminder tasks alive at the same time
MaxSenders  == 2      \* send_text / send_text_by_chat calls in flight at the same time
MaxSends    == 4      \* send_text / send_text_by_chat calls made for a chat in one behaviour
MaxAppends  == 1      \* record_event calls made on the stored log in one behaviour
MaxClock    == 16     \* the last day of a behaviour
MaxPresses  == 2      \* updates a user sends in one session on the stored log

(* ------------------------- program constants -------------------------- *)
days == 7                      \* get_stats(ANALYTICS_DB_PATH, days=7)
LIMIT == 5                     \* LIMIT 5 of the two subject rankings
SUPPORT_REMINDER_MAX == 3
DEFAULT_LANG == "ru"
TEXTS_BY_LANG == {"ru", "en"}          \* keys of the loaded text bundles

Chats == {1}
Users == {1}
Keys  == Chats \X Users                \* support_key(chat_id, user_id)

(* ADMIN_CHAT_ID of the environment; the private chat of the admin, who   *)
(* here sends nothing but /stats                                          *)
ADMIN_CHAT_ID == 2
AdminKey == <<ADMIN_CHAT_ID, ADMIN_CHAT_ID>>

NoTask == 0
Absent == -1                           \* key missing from SUPPORT_REMINDER_COUNTS
NoLang == "-"                          \* key missing from USER_LANG / SUPPORT_LANGS
NoKey  == <<0, 0>>

TaskIds    == 1..MaxTasks
HandlerIds == 1..MaxHandlers
SenderIds  == 1..MaxSenders
NoMessage  == 0                        \* chat missing from LAST_BOT_MESSAGE_ID

(* event types, lines 316-331 *)
EVENT_START            == "start"
EVENT_FAQ_ANSWER       == "faq_answer"
EVENT_INSTALL_ANSWER   == "install_answer"
EVENT_SUPPORT_START    == "support_start"
EVENT_SUPPORT_CANCEL   == "support_cancel"
EVENT_SUPPORT_SUBMIT   == "support_submit"
EVENT_SUPPORT_NON_TEXT == "support_non_text"
EVENT_INSTALL_MENU     == "install_menu"
EVENT_FALLBACK_MESSAGE == "fallback_message"
EVENT_FALLBACK_CALLBACK == "fallback_callback"
EVENT_STATS            == "stats_request"
EVENT_MAIN_MENU_OPEN   == "main_menu_open"
EVENT_SUPPORT_REMINDER == "support_reminder"
EVENT_SUPPORT_RESOLVED == "support_resolved"
EVENT_FEEDBACK_HELPFUL   == "feedback_helpful"
EVENT_FEEDBACK_UNHELPFUL == "feedback_unhelpful"

(* callback payloads, lines 304-314 and 344 *)
MAIN_INSTALL       == "main:install"
MAIN_MENU_OPEN     == "main:menu"
INSTALL_BACK       == "install:back"
SUPPORT_START      == "support:start"
SUPPORT_CANCEL     == "support:cancel"
SUPPORT_RESOLVED   == "support:resolved"
FEEDBACK_HELPFUL_PREFIX   == "feedback:yes:"
FEEDBACK_UNHELPFUL_PREFIX == "feedback:no:"
LANG_SELECT_PREFIX == "lang:"
ANSWER_KEYS         == {"main:keys"}
INSTALL_ANSWER_KEYS == {"install:ios"}

(* A callback payload is <<head, tail>>: the text up to and including the  *)
(* last colon-separated prefix the routers test, and the rest.             *)
CallbackData ==
    {<<LANG_SELECT_PREFIX, l>> : l \in {"en", "kk"}}
    \cup {<<d, "">> : d \in {SUPPORT_START, SUPPORT_CANCEL, SUPPORT_RESOLVED,
                             MAIN_INSTALL, MAIN_MENU_OPEN, INSTALL_BACK}}
    \cup {<<d, "">> : d \in ANSWER_KEYS \cup INSTALL_ANSWER_KEYS}
    \cup {<<p, a>> : p \in {FEEDBACK_HELPFUL_PREFIX, FEEDBACK_UNHELPFUL_PREFIX},
                     a \in ANSWER_KEYS}
    \cup {<<"main:old", "">>}       \* a payload no other handler takes

(* A message text is <<phrase, upper>>: a phrase and whether it is typed   *)
(* with capitals.  str.casefold() removes the capitals.                    *)
Phrases == {"/start", "/stats", "cancel_ru", "cancel_en", "hello"}
Texts   == Phrases \X BOOLEAN
NoText  == <<"", FALSE>>               \* message.text is None (photo, sticker)

casefold(t) == <<t[1], FALSE>>

(* texts["messages"]["support_cancel_trigger"] of each loaded language *)
support_cancel_trigger(l) == IF l = "ru" THEN <<"cancel_ru", TRUE>> ELSE <<"cancel_en", TRUE>>

CANCEL_TRIGGERS == {casefold(support_cancel_trigger(l)) : l \in TEXTS_BY_LANG}

(* user.language_code as its characters; <<>> is no user or no code *)
NoCode == <<>>
Hints == {NoCode, <<"e", "n">>}

(* the codes the language resolver is checked on *)
LanguageCodes ==
    Hints \cup {<<"k", "k">>, <<"R", "U">>, <<"d", "e">>, <<"e">>,
                <<"e", "n", "-", "U", "S">>}

VARIABLES
    state,                    \* aiogram FSM state per (chat, user): "Idle" | "waiting_message"
    USER_LANG,                \* user -> language | NoLang
    SUPPORT_PENDING,          \* set of keys
    SUPPORT_REMINDER_TASKS,   \* key -> task id | NoTask
    SUPPORT_REMINDER_COUNTS,  \* key -> count | Absent
    SUPPORT_LANGS,            \* key -> language | NoLang
    task,                     \* task id -> reminder task (run_support_reminder)
    handler,                  \* handler id -> update handler in flight
    events,                   \* analytics log: event type -> rows of that type
    append,                   \* what record_event did in the last step: "none" | "stored" | "lost"
    adminInbox,               \* payloads delivered to the admin chat
    inbound,                  \* updates delivered so far
    \* the message lifecycle, in detail
    LAST_BOT_MESSAGE_ID,      \* chat -> message id | NoMessage
    sent,                     \* chat -> bot messages sent; their ids are 1..sent
    deletes,                  \* chat -> the targets of the delete attempts, in order
    failed,                   \* chat -> targets of the delete attempts that failed
    sender,                   \* sender id -> send_text / send_text_by_chat call in flight
    calls,                    \* chat -> send_text / send_text_by_chat calls made so far
    serial,                   \* no two calls overlapped and no send failed so far
    alike,                    \* two calls of the same function overlapped
    \* the event store, in detail
    rows,                     \* the rows of table events, in insertion order
    clock,                    \* the day it is
    appends,                  \* record_event calls made on the stored log so far
    session                   \* the commands and buttons of the user, as sent

engineVars == <<state, USER_LANG, SUPPORT_PENDING,
                SUPPORT_REMINDER_TASKS, SUPPORT_REMINDER_COUNTS, SUPPORT_LANGS,
                task, handler, events, append, adminInbox, inbound>>

lifecycleVars == <<LAST_BOT_MESSAGE_ID, sent, deletes, failed, sender, calls, serial, alike>>

storeVars == <<rows, clock, appends, session>>

vars == <<engineVars, lifecycleVars, storeVars>>

NoSenderRec  == [chat |-> 0, pc |-> "idle", target |-> NoMessage, via |-> "-",
                 delete_failed |-> FALSE]
NoTaskRec    == [key |-> NoKey, pc |-> "none", cancelled |-> FALSE, stale |-> FALSE]
NoHandlerRec == [kind |-> "none", key |-> NoKey, pc |-> "idle", lang |-> NoLang,
                 text |-> FALSE, raw_state |-> "Idle", raw_pending |-> FALSE,
                 solo |-> TRUE, reply |-> "-"]

(* the event types whose rows the model counts *)
CountedEvents == {EVENT_SUPPORT_REMINDER}

InitSession ==
    /\ state = [k \in Keys |-> "Idle"]
    /\ USER_LANG = [u \in Users |-> NoLang]
    /\ SUPPORT_PENDING = {}
    /\ SUPPORT_REMINDER_TASKS = [k \in Keys |-> NoTask]
    /\ SUPPORT_REMINDER_COUNTS = [k \in Keys |-> Absent]
    /\ SUPPORT_LANGS = [k \in Keys |-> NoLang]
    /\ task = [t \in TaskIds |-> NoTaskRec]
    /\ handler = [h \in HandlerIds |-> NoHandlerRec]
    /\ events = [e \in CountedEvents |-> 0]
    /\ append = "none"
    /\ adminInbox = 0
    /\ inbound = 0
    /\ LAST_BOT_MESSAGE_ID = [c \in Chats |-> NoMessage]
    /\ sent = [c \in Chats |-> 0]
    /\ deletes = [c \in Chats |-> <<>>]
    /\ failed = [c \in Chats |-> {}]
    /\ sender = [p \in SenderIds |-> NoSenderRec]
    /\ calls = [c \in Chats |-> 0]
    /\ serial = TRUE
    /\ alike = FALSE

(* the table as init_analytics_db creates it (lines 77-99) *)
Init ==
    /\ InitSession
    /\ rows = <<>>
    /\ clock = days
    /\ appends = 0
    /\ session = <<>>


(* ----------------------- analytics event store ------------------------ *)
(* record_event: insert and commit, or log the failure and go on.         *)
record_event(log, event_type, ok) ==
    IF ok /\ event_type \in DOMAIN log THEN [log EXCEPT ![event_type] = @ + 1] ELSE log

(* the failure of the insert re-raised to the caller *)
record_event_reraises(ok) == ~ok

(* lines 116-130: whatever connect, execute, commit or close raise is      *)
(* caught by `except Exception` and logged; the call always returns.       *)
record_event_raises(ok) == FALSE

(* the statements that follow a record_event call run when it returned *)
AfterLog(ok, after, before) == IF record_event_raises(ok) THEN before ELSE after

(* a step that calls record_event once, and a step that does not call it *)
Logs(event_type, ok) ==
    /\ events' = record_event(events, event_type, ok)
    /\ append' = IF ok THEN "stored" ELSE "lost"

NoLog == UNCHANGED events /\ append' = "none"

(* ------------------------ language resolver --------------------------- *)
(* str.lower(), on the letters the codes are written with *)
lower(code) ==
    [i \in DOMAIN code |->
        CASE code[i] = "E" -> "e"
          [] code[i] = "N" -> "n"
          [] code[i] = "R" -> "r"
          [] code[i] = "U" -> "u"
          [] code[i] = "S" -> "s"
          [] OTHER -> code[i]]

(* str.startswith *)
startswith(code, prefix) ==
    /\ Len(prefix) <= Len(code)
    /\ \A i \in 1..Len(prefix) : code[i] = prefix[i]

(* for prefix in ("kk", "en", "ru"): the first prefix the lower-cased     *)
(* code starts with is returned as it is                                  *)
detect_language_code(hint) ==
    IF hint = NoCode THEN DEFAULT_LANG
    ELSE LET code == lower(hint) IN
         IF startswith(code, <<"k", "k">>) THEN "kk"
         ELSE IF startswith(code, <<"e", "n">>) THEN "en"
         ELSE IF startswith(code, <<"r", "u">>) THEN "ru"
         ELSE DEFAULT_LANG

get_user_lang(user, hint) ==
    IF USER_LANG[user] # NoLang THEN USER_LANG[user] ELSE detect_language_code(hint)

(* ------------------------ escalation scheduler ------------------------ *)
(* The four module-level maps and the tasks, as one value, so that the    *)
(* calls a handler makes in a row compose.                                *)
Esc == [pending |-> SUPPORT_PENDING, tasks |-> SUPPORT_REMINDER_TASKS,
        counts |-> SUPPORT_REMINDER_COUNTS, langs |-> SUPPORT_LANGS, task |-> task]

SetEsc(e) ==
    /\ SUPPORT_PENDING' = e.pending
    /\ SUPPORT_REMINDER_TASKS' = e.tasks
    /\ SUPPORT_REMINDER_COUNTS' = e.counts
    /\ SUPPORT_LANGS' = e.langs
    /\ task' = e.task

EscUnchanged == UNCHANGED <<SUPPORT_PENDING, SUPPORT_REMINDER_TASKS,
                            SUPPORT_REMINDER_COUNTS, SUPPORT_LANGS, task>>

(* task.cancel(): the task gets CancelledError at the await it is         *)
(* suspended in, the next time the event loop runs it.                    *)
cancel_support_reminder(e, key) ==
    LET t == e.tasks[key] IN
    IF t = NoTask THEN e
    ELSE [e EXCEPT !.tasks[key] = NoTask, !.task[t].cancelled = TRUE]

(* the pop of SUPPORT_REMINDER_COUNTS left out *)
clear_support_pending_KeepsCount(e, key) ==
    cancel_support_reminder(
        [e EXCEPT !.pending = @ \ {key},
                  !.langs[key] = NoLang,
                  !.task = [t \in TaskIds |->
                              IF e.task[t].key = key /\ e.task[t].pc # "none"
                              THEN [e.task[t] EXCEPT !.stale = TRUE]
                              ELSE e.task[t]]],
        key)

(* `stale` is history only: it marks the tasks of the key that were       *)
(* created before this call.                                              *)
clear_support_pending(e, key) ==
    cancel_support_reminder(
        [e EXCEPT !.pending = @ \ {key},
                  !.counts[key] = Absent,
                  !.langs[key] = NoLang,
                  !.task = [t \in TaskIds |->
                              IF e.task[t].key = key /\ e.task[t].pc # "none"
                              THEN [e.task[t] EXCEPT !.stale = TRUE]
                              ELSE e.task[t]]],
        key)

FreeTask(tk) ==
    CHOOSE t \in TaskIds :
        /\ tk[t].pc = "none"
        /\ \A s \in TaskIds : tk[s].pc = "none" => t <= s

(* the limit test with > for >= *)
LimitReached_OffByOne(count) == count > SUPPORT_REMINDER_MAX

LimitReached(count) == count >= SUPPORT_REMINDER_MAX

(* the count set to 0 by every call *)
InitialCount_AlwaysZero(e, key) == 0

InitialCount(e, key) == IF e.counts[key] = Absent THEN 0 ELSE e.counts[key]

schedule_support_reminder(e, key, lang) ==
    LET e1 == cancel_support_reminder(
                  [e EXCEPT !.pending = @ \cup {key}, !.langs[key] = lang], key)
        e2 == [e1 EXCEPT !.counts[key] = InitialCount(e1, key)]
    IN  IF LimitReached(e2.counts[key]) THEN e2
        ELSE LET t == FreeTask(e2.task) IN
             [e2 EXCEPT !.tasks[key] = t,
                        !.task[t] = [key |-> key, pc |-> "new",
                                     cancelled |-> FALSE, stale |-> FALSE]]

(* a task slot is there for the asyncio.create_task the call would make *)
CanSchedule(e, key) ==
    \/ LimitReached(InitialCount(e, key))
    \/ \E t \in TaskIds : e.task[t].pc = "none"

(* ------------------- reminder loop (run_support_reminder) ------------- *)
(* SUPPORT_REMINDER_COUNTS.get(key, 0) *)
CurrentCount(key) ==
    IF SUPPORT_REMINDER_COUNTS[key] = Absent THEN 0 ELSE SUPPORT_REMINDER_COUNTS[key]

UnregisterOnExit(tasks, key, t) == [tasks EXCEPT ![key] = NoTask]

(* finally: SUPPORT_REMINDER_TASKS.pop(support_key(chat_id, user_id), None) *)
ReminderExit(t) ==
    /\ SUPPORT_REMINDER_TASKS' = UnregisterOnExit(SUPPORT_REMINDER_TASKS, task[t].key, t)
    /\ task' = [task EXCEPT ![t] = NoTaskRec]

(* first run of the task: enter the try block, suspend in asyncio.sleep *)
ReminderStart(t) ==
    /\ task[t].pc = "new"
    /\ ~task[t].cancelled
    /\ task' = [task EXCEPT ![t].pc = "sleep"]
    /\ NoLog
    /\ UNCHANGED <<state, USER_LANG, SUPPORT_PENDING, SUPPORT_REMINDER_TASKS,
                   SUPPORT_REMINDER_COUNTS, SUPPORT_LANGS,
                   handler, adminInbox, inbound>>
    /\ UNCHANGED <<lifecycleVars, storeVars>>

(* the sleep is over: lines 470-485, up to the await in send_text_by_chat *)
ReminderWake(t, ok) ==
    LET key == task[t].key IN
    /\ task[t].pc = "sleep"
    /\ ~task[t].cancelled
    /\ IF key \notin SUPPORT_PENDING
       THEN /\ ReminderExit(t)
            /\ UNCHANGED SUPPORT_REMINDER_COUNTS
            /\ NoLog
       ELSE LET count == CurrentCount(key) IN
            IF LimitReached(count)
            THEN /\ ReminderExit(t)
                 /\ UNCHANGED SUPPORT_REMINDER_COUNTS
                 /\ NoLog
            ELSE /\ SUPPORT_REMINDER_COUNTS' = [SUPPORT_REMINDER_COUNTS EXCEPT ![key] = count + 1]
                 /\ Logs(EVENT_SUPPORT_REMINDER, ok)
                 /\ IF record_event_raises(ok)
                    THEN ReminderExit(t)
                    ELSE /\ task' = [task EXCEPT ![t].pc = "send"]
                         /\ UNCHANGED SUPPORT_REMINDER_TASKS
    /\ UNCHANGED <<state, USER_LANG, SUPPORT_PENDING, SUPPORT_LANGS,
                   handler, adminInbox, inbound>>
    /\ UNCHANGED <<lifecycleVars, storeVars>>

(* send_text_by_chat returned (ok), or bot.send_message raised: the        *)
(* exception leaves the while loop, is logged by `except Exception`, and   *)
(* the task ends                                                           *)
ReminderSendDone(t, ok) ==
    /\ task[t].pc = "send"
    /\ ~task[t].cancelled
    /\ IF ok
       THEN /\ task' = [task EXCEPT ![t].pc = "sleep"]
            /\ UNCHANGED SUPPORT_REMINDER_TASKS
       ELSE ReminderExit(t)
    /\ NoLog
    /\ UNCHANGED <<state, USER_LANG, SUPPORT_PENDING, SUPPORT_REMINDER_COUNTS,
                   SUPPORT_LANGS, handler, adminInbox, inbound>>
    /\ UNCHANGED <<lifecycleVars, storeVars>>

(* The cancelled task runs again and CancelledError is raised at its      *)
(* await.  A task cancelled before its first run never entered the try    *)
(* block, so no finally clause runs; otherwise the finally of             *)
(* run_support_reminder pops the key's registration.                      *)
ReminderCancelled(t) ==
    /\ task[t].pc # "none"
    /\ task[t].cancelled
    /\ IF task[t].pc = "new"
       THEN /\ task' = [task EXCEPT ![t] = NoTaskRec]
            /\ UNCHANGED SUPPORT_REMINDER_TASKS
       ELSE ReminderExit(t)
    /\ NoLog
    /\ UNCHANGED <<state, USER_LANG, SUPPORT_PENDING, SUPPORT_REMINDER_COUNTS,
                   SUPPORT_LANGS, handler, adminInbox, inbound>>
    /\ UNCHANGED <<lifecycleVars, storeVars>>

(* ------------------------- update dispatching ------------------------- *)
(* Routers try their handlers in registration order (lines 574-827); the  *)
(* FSM state the filters see is the one stored when the update arrives.   *)
MessageRoute(key, text) ==
    IF text = <<"/start", FALSE>> THEN "cmd_start"
    ELSE IF text = <<"/stats", FALSE>> THEN "cmd_stats"
    ELSE IF state[key] = "waiting_message" /\ text # NoText
            /\ casefold(text) \in CANCEL_TRIGGERS THEN "support_cancel"
    ELSE IF state[key] = "waiting_message" THEN "support_message"
    ELSE IF text # NoText THEN "fallback"
    ELSE "unhandled"

CallbackRoute(data) ==
    IF data[1] = LANG_SELECT_PREFIX THEN "language_select_callback"
    ELSE IF data[1] = SUPPORT_START THEN "support_start_callback"
    ELSE IF data[1] = SUPPORT_RESOLVED THEN "support_resolved_callback"
    ELSE IF data[1] = SUPPORT_CANCEL THEN "support_cancel_callback"
    ELSE IF data[1] = MAIN_INSTALL THEN "install_menu_callback"
    ELSE IF data[1] \in {MAIN_MENU_OPEN, INSTALL_BACK} THEN "main_menu_callback"
    ELSE IF data[1] \in INSTALL_ANSWER_KEYS THEN "install_answer_callback"
    ELSE IF data[1] \in ANSWER_KEYS THEN "main_answer_callback"
    ELSE IF data[1] = FEEDBACK_HELPFUL_PREFIX THEN "feedback_helpful_callback"
    ELSE IF data[1] = FEEDBACK_UNHELPFUL_PREFIX THEN "feedback_unhelpful_callback"
    ELSE "fallback_callback"

(* the update is taken by the lowest free handler slot *)
Deliverable(h) ==
    /\ inbound < MaxInbound
    /\ handler[h].pc = "idle"
    /\ \A g \in HandlerIds : g < h => handler[g].pc # "idle"

(* The handler ran up to its first gateway await, `pc`, or ended before   *)
(* it (`pc` = "idle").  `text` says                                       *)
(* whether message.text is set, `raw_state` is the FSM state the update   *)
(* was routed with.  `raw_pending` and `solo` are history only: the key   *)
(* was pending when the update arrived; no other update of the same key   *)
(* was being handled at any moment of this handling.  `reply` names the   *)
(* text the handler answers with, where it has more than one.             *)
BeginReply(h, kind, key, pc, lang, text, reply) ==
    /\ handler' = [g \in HandlerIds |->
                     IF g = h /\ pc = "idle"
                     THEN NoHandlerRec
                     ELSE IF g = h
                     THEN [kind |-> kind, key |-> key, pc |-> pc, lang |-> lang,
                           text |-> text,
                           raw_state |-> IF key \in Keys THEN state[key] ELSE "Idle",
                           raw_pending |-> key \in SUPPORT_PENDING,
                           solo |-> \A f \in HandlerIds : handler[f].key # key,
                           reply |-> reply]
                     ELSE IF handler[g].key = key
                     THEN [handler[g] EXCEPT !.solo = FALSE]
                     ELSE handler[g]]
    /\ inbound' = inbound + 1
    /\ UNCHANGED <<adminInbox, lifecycleVars, storeVars>>

Begin(h, kind, key, pc, lang, text) == BeginReply(h, kind, key, pc, lang, text, "-")

(* ------------------------------ handlers ------------------------------ *)
(* Each handler up to its first gateway await.  The statements before its *)
(* record_event call always run, the ones after it run when the call      *)
(* returned.                                                              *)
cmd_start(h, key, ok) ==
    /\ Deliverable(h)
    /\ MessageRoute(key, <<"/start", FALSE>>) = "cmd_start"
    /\ state' = [state EXCEPT ![key] = "Idle"]
    /\ Logs(EVENT_START, ok)
    /\ USER_LANG' = AfterLog(ok, [USER_LANG EXCEPT ![key[2]] = NoLang], USER_LANG)
    /\ Begin(h, "cmd_start", key, AfterLog(ok, "send", "idle"), NoLang, TRUE)
    /\ EscUnchanged

language_select_callback(h, key, data) ==
    /\ Deliverable(h)
    /\ CallbackRoute(data) = "language_select_callback"
    /\ LET lang == IF data[2] \in TEXTS_BY_LANG THEN data[2] ELSE DEFAULT_LANG IN
       USER_LANG' = [USER_LANG EXCEPT ![key[2]] = lang]
    /\ state' = [state EXCEPT ![key] = "Idle"]
    /\ Begin(h, "language_select_callback", key, "send", NoLang, FALSE)
    /\ EscUnchanged
    /\ NoLog

(* the test with the chat only *)
stats_unauthorized_ChatOnly(chat_id, user_id) == chat_id # ADMIN_CHAT_ID

(* if message.chat.id != admin_chat_id and user_id != admin_chat_id *)
stats_unauthorized(chat_id, user_id) ==
    chat_id # ADMIN_CHAT_ID /\ user_id # ADMIN_CHAT_ID

(* the chat and user a /stats can come from: the users' own chats, the    *)
(* admin's chat, the admin in a user's chat, a user in the admin chat     *)
StatsKeys ==
    Keys \cup {AdminKey}
         \cup {<<c, ADMIN_CHAT_ID>> : c \in Chats}
         \cup {<<ADMIN_CHAT_ID, u>> : u \in Users}

(* /stats: the unauthorized answer, or get_stats, the event and the       *)
(* report built from the statistics (lines 611-644)                       *)
cmd_stats(h, key, ok) ==
    /\ Deliverable(h)
    /\ MessageRoute(key, <<"/stats", FALSE>>) = "cmd_stats"
    /\ IF stats_unauthorized(key[1], key[2])
       THEN /\ NoLog
            /\ BeginReply(h, "cmd_stats", key, "send", NoLang, TRUE, "stats_unauthorized")
       ELSE /\ Logs(EVENT_STATS, ok)
            /\ BeginReply(h, "cmd_stats", key, AfterLog(ok, "send", "idle"), NoLang, TRUE,
                          "stats_report")
    /\ EscUnchanged
    /\ UNCHANGED <<state, USER_LANG>>

support_cancel(h, key, text, ok) ==
    /\ Deliverable(h)
    /\ MessageRoute(key, text) = "support_cancel"
    /\ state' = [state EXCEPT ![key] = "Idle"]
    /\ Logs(EVENT_SUPPORT_CANCEL, ok)
    /\ SetEsc(AfterLog(ok, clear_support_pending(Esc, key), Esc))
    /\ Begin(h, "support_cancel", key, AfterLog(ok, "send", "idle"), NoLang, TRUE)
    /\ UNCHANGED USER_LANG

(* support_message up to its first await: the prompt for a non-text       *)
(* message, the forward to the admin chat for a text                      *)
support_message(h, key, text, hint, ok) ==
    /\ Deliverable(h)
    /\ MessageRoute(key, text) = "support_message"
    /\ IF text = NoText
       THEN /\ Logs(EVENT_SUPPORT_NON_TEXT, ok)
            /\ Begin(h, "support_message", key, AfterLog(ok, "send", "idle"),
                     get_user_lang(key[2], hint), FALSE)
            /\ EscUnchanged
       ELSE /\ Logs(EVENT_SUPPORT_SUBMIT, ok)
            /\ SetEsc(AfterLog(ok, clear_support_pending(Esc, key), Esc))
            /\ Begin(h, "support_message", key, AfterLog(ok, "fwd", "idle"), NoLang, TRUE)
    /\ UNCHANGED <<state, USER_LANG>>

support_start_callback(h, key, data, hint, ok) ==
    /\ Deliverable(h)
    /\ CallbackRoute(data) = "support_start_callback"
    /\ state' = [state EXCEPT ![key] = "waiting_message"]
    /\ Logs(EVENT_SUPPORT_START, ok)
    /\ Begin(h, "support_start_callback", key, AfterLog(ok, "send", "idle"),
             get_user_lang(key[2], hint), FALSE)
    /\ EscUnchanged
    /\ UNCHANGED USER_LANG

support_resolved_callback(h, key, data, ok) ==
    /\ Deliverable(h)
    /\ CallbackRoute(data) = "support_resolved_callback"
    /\ state' = [state EXCEPT ![key] = "Idle"]
    /\ Logs(EVENT_SUPPORT_RESOLVED, ok)
    /\ SetEsc(AfterLog(ok, clear_support_pending(Esc, key), Esc))
    /\ Begin(h, "support_resolved_callback", key, AfterLog(ok, "send", "idle"), NoLang, FALSE)
    /\ UNCHANGED USER_LANG

support_cancel_callback(h, key, data, ok) ==
    /\ Deliverable(h)
    /\ CallbackRoute(data) = "support_cancel_callback"
    /\ state' = [state EXCEPT ![key] = "Idle"]
    /\ Logs(EVENT_SUPPORT_CANCEL, ok)
    /\ SetEsc(AfterLog(ok, clear_support_pending(Esc, key), Esc))
    /\ Begin(h, "support_cancel_callback", key, AfterLog(ok, "send", "idle"), NoLang, FALSE)
    /\ UNCHANGED USER_LANG

install_menu_callback(h, key, data, ok) ==
    /\ Deliverable(h)
    /\ CallbackRoute(data) = "install_menu_callback"
    /\ state' = [state EXCEPT ![key] = "Idle"]
    /\ Logs(EVENT_INSTALL_MENU, ok)
    /\ Begin(h, "install_menu_callback", key, AfterLog(ok, "send", "idle"), NoLang, FALSE)
    /\ EscUnchanged
    /\ UNCHANGED USER_LANG

main_menu_callback(h, key, data, ok) ==
    /\ Deliverable(h)
    /\ CallbackRoute(data) = "main_menu_callback"
    /\ state' = [state EXCEPT ![key] = "Idle"]
    /\ Logs(EVENT_MAIN_MENU_OPEN, ok)
    /\ SetEsc(AfterLog(ok, clear_support_pending(Esc, key), Esc))
    /\ Begin(h, "main_menu_callback", key, AfterLog(ok, "send", "idle"), NoLang, FALSE)
    /\ UNCHANGED USER_LANG

install_answer_callback(h, key, data, ok) ==
    /\ Deliverable(h)
    /\ CallbackRoute(data) = "install_answer_callback"
    /\ state' = [state EXCEPT ![key] = "Idle"]
    /\ Logs(EVENT_INSTALL_ANSWER, ok)
    /\ Begin(h, "install_answer_callback", key, AfterLog(ok, "send", "idle"), NoLang, FALSE)
    /\ EscUnchanged
    /\ UNCHANGED USER_LANG

main_answer_callback(h, key, data, ok) ==
    /\ Deliverable(h)
    /\ CallbackRoute(data) = "main_answer_callback"
    /\ state' = [state EXCEPT ![key] = "Idle"]
    /\ Logs(EVENT_FAQ_ANSWER, ok)
    /\ Begin(h, "main_answer_callback", key, AfterLog(ok, "send", "idle"), NoLang, FALSE)
    /\ EscUnchanged
    /\ UNCHANGED USER_LANG

(* The feedback buttons: the event, then call.message.edit_reply_markup   *)
(* (its failure is caught, lines 791-794) and call.answer: no new message *)
(* is sent, and the two awaits are the one program point "ack".           *)
feedback_helpful_callback(h, key, data, ok) ==
    /\ Deliverable(h)
    /\ CallbackRoute(data) = "feedback_helpful_callback"
    /\ Logs(EVENT_FEEDBACK_HELPFUL, ok)
    /\ Begin(h, "feedback_helpful_callback", key, AfterLog(ok, "ack", "idle"), NoLang, FALSE)
    /\ EscUnchanged
    /\ UNCHANGED <<state, USER_LANG>>

feedback_unhelpful_callback(h, key, data, ok) ==
    /\ Deliverable(h)
    /\ CallbackRoute(data) = "feedback_unhelpful_callback"
    /\ Logs(EVENT_FEEDBACK_UNHELPFUL, ok)
    /\ Begin(h, "feedback_unhelpful_callback", key, AfterLog(ok, "ack", "idle"), NoLang, FALSE)
    /\ EscUnchanged
    /\ UNCHANGED <<state, USER_LANG>>

(* the fallback text sent as a new message *)
fallback_callback_SendsMessage(h, key, data, ok) ==
    /\ Deliverable(h)
    /\ CallbackRoute(data) = "fallback_callback"
    /\ Logs(EVENT_FALLBACK_CALLBACK, ok)
    /\ Begin(h, "fallback_callback", key, AfterLog(ok, "send", "idle"), NoLang, FALSE)
    /\ EscUnchanged
    /\ UNCHANGED <<state, USER_LANG>>

(* any other button: the event and call.answer with the fallback text *)
fallback_callback(h, key, data, ok) ==
    /\ Deliverable(h)
    /\ CallbackRoute(data) = "fallback_callback"
    /\ Logs(EVENT_FALLBACK_CALLBACK, ok)
    /\ Begin(h, "fallback_callback", key, AfterLog(ok, "ack", "idle"), NoLang, FALSE)
    /\ EscUnchanged
    /\ UNCHANGED <<state, USER_LANG>>

fallback(h, key, text, ok) ==
    /\ Deliverable(h)
    /\ MessageRoute(key, text) = "fallback"
    /\ Logs(EVENT_FALLBACK_MESSAGE, ok)
    /\ Begin(h, "fallback", key, AfterLog(ok, "send", "idle"), NoLang, TRUE)
    /\ EscUnchanged
    /\ UNCHANGED <<state, USER_LANG>>

(* ---------------- handlers resumed after a gateway call --------------- *)
(* the handler returned, or an exception of the gateway ended it *)
Finish(h) == handler' = [handler EXCEPT ![h] = NoHandlerRec]

(* the statements of each handler that follow its send_text / send_answer *)
AfterSend(h) ==
    LET key == handler[h].key
        kind == handler[h].kind IN
    IF kind = "support_start_callback"
    THEN /\ CanSchedule(clear_support_pending(Esc, key), key)
         /\ SetEsc(schedule_support_reminder(clear_support_pending(Esc, key), key, handler[h].lang))
    ELSE IF kind = "support_message" /\ ~handler[h].text
    THEN /\ CanSchedule(Esc, key)
         /\ SetEsc(schedule_support_reminder(Esc, key, handler[h].lang))
    ELSE EscUnchanged

(* send_text / send_answer returned (ok), or message.answer raised and the *)
(* exception ended the handler                                             *)
SendDone(h, ok) ==
    /\ handler[h].pc = "send"
    /\ IF ok THEN AfterSend(h) ELSE EscUnchanged
    /\ Finish(h)
    /\ NoLog
    /\ UNCHANGED <<state, USER_LANG, adminInbox, inbound>>
    /\ UNCHANGED <<lifecycleVars, storeVars>>

(* call.answer of a feedback or fallback button returned or raised: the   *)
(* handler ends either way                                                *)
AckDone(h, ok) ==
    /\ handler[h].pc = "ack"
    /\ Finish(h)
    /\ EscUnchanged
    /\ NoLog
    /\ UNCHANGED <<state, USER_LANG, adminInbox, inbound>>
    /\ UNCHANGED <<lifecycleVars, storeVars>>

(* support_message: bot.send_message(admin_chat_id, ...) returned or raised *)
ForwardDone(h, ok) ==
    /\ handler[h].pc = "fwd"
    /\ IF ok
       THEN /\ adminInbox' = adminInbox + 1
            /\ state' = [state EXCEPT ![handler[h].key] = "Idle"]
            /\ handler' = [handler EXCEPT ![h].pc = "send"]
       ELSE /\ Finish(h)
            /\ UNCHANGED <<adminInbox, state>>
    /\ EscUnchanged
    /\ NoLog
    /\ UNCHANGED <<USER_LANG, inbound>>
    /\ UNCHANGED <<lifecycleVars, storeVars>>

Next ==
    \/ \E h \in HandlerIds, key \in StatsKeys, ok \in BOOLEAN :
          cmd_stats(h, key, ok)
    \/ \E h \in HandlerIds, key \in Keys, ok \in BOOLEAN :
          \/ cmd_start(h, key, ok)
          \/ \E text \in Texts : support_cancel(h, key, text, ok)
          \/ \E text \in Texts : fallback(h, key, text, ok)
          \/ \E text \in Texts \cup {NoText}, hint \in Hints :
                support_message(h, key, text, hint, ok)
          \/ \E data \in CallbackData, hint \in Hints :
                support_start_callback(h, key, data, hint, ok)
          \/ \E data \in CallbackData :
                \/ support_resolved_callback(h, key, data, ok)
                \/ support_cancel_callback(h, key, data, ok)
                \/ install_menu_callback(h, key, data, ok)
                \/ main_menu_callback(h, key, data, ok)
                \/ install_answer_callback(h, key, data, ok)
                \/ main_answer_callback(h, key, data, ok)
                \/ feedback_helpful_callback(h, key, data, ok)
                \/ feedback_unhelpful_callback(h, key, data, ok)
                \/ fallback_callback(h, key, data, ok)
    \/ \E h \in HandlerIds, key \in Keys, data \in CallbackData :
          language_select_callback(h, key, data)
    \/ \E h \in HandlerIds, ok \in BOOLEAN :
          SendDone(h, ok) \/ ForwardDone(h, ok) \/ AckDone(h, ok)
    \/ \E t \in TaskIds, ok \in BOOLEAN : ReminderWake(t, ok) \/ ReminderSendDone(t, ok)
    \/ \E t \in TaskIds : ReminderStart(t) \/ ReminderCancelled(t)

Spec == Init /\ [][Next]_vars

TypeOK ==
    /\ state \in [Keys -> {"Idle", "waiting_message"}]
    /\ SUPPORT_PENDING \subseteq Keys
    /\ \A k \in Keys : SUPPORT_REMINDER_COUNTS[k] \in {Absent} \cup (0..SUPPORT_REMINDER_MAX + 1)
    /\ \A k \in Keys : SUPPORT_REMINDER_TASKS[k] \in {NoTask} \cup TaskIds


(* ===================== the message lifecycle, in detail ================ *)
(* send_text (lines 381-391) and send_answer (499-539), called by the     *)
(* handlers, and send_text_by_chat (394-402), called by the reminder      *)
(* loops, are the same three runs: cleanup_previous_message up to         *)
(* `await bot.delete_message`, from there to the await of the send, and   *)
(* the rest.  The calls of different tasks interleave at the two awaits.  *)
(* A sent message gets the next id of the chat, which the caller learns   *)
(* when it resumes.                                                       *)
SendFunctions == {"send_text", "send_text_by_chat"}

(* the assignment left out *)
remember_sent_Forgets(last, chat, message_id) == last

(* LAST_BOT_MESSAGE_ID[chat_id] = sent.message_id *)
remember_sent(last, chat, message_id) == [last EXCEPT ![chat] = message_id]

(* the pop in the try block instead of the finally clause *)
cleanup_finally_OnSuccessOnly(last, chat, ok) ==
    IF ok THEN [last EXCEPT ![chat] = NoMessage] ELSE last

(* finally: LAST_BOT_MESSAGE_ID.pop(chat_id, None), whether the delete    *)
(* returned or raised                                                     *)
cleanup_finally(last, chat, ok) == [last EXCEPT ![chat] = NoMessage]

(* The call up to its first await.  cleanup_previous_message reads the    *)
(* stored id: with none it returns and the send is awaited, else          *)
(* bot.delete_message(chat_id, message_id) is awaited.                    *)
send_text(p, chat, via) ==
    /\ calls[chat] < MaxSends
    /\ sender[p].pc = "idle"
    /\ \A q \in SenderIds : q < p => sender[q].pc # "idle"
    /\ LET message_id == LAST_BOT_MESSAGE_ID[chat] IN
       IF message_id = NoMessage
       THEN /\ sender' = [sender EXCEPT ![p] =
                            [chat |-> chat, pc |-> "send", target |-> NoMessage,
                             via |-> via, delete_failed |-> FALSE]]
            /\ UNCHANGED deletes
       ELSE /\ sender' = [sender EXCEPT ![p] =
                            [chat |-> chat, pc |-> "delete", target |-> message_id,
                             via |-> via, delete_failed |-> FALSE]]
            /\ deletes' = [deletes EXCEPT ![chat] = Append(@, message_id)]
    /\ calls' = [calls EXCEPT ![chat] = @ + 1]
    /\ serial' = (serial /\ \A q \in SenderIds : sender[q].pc = "idle")
    /\ alike' = (alike \/ \E q \in SenderIds : sender[q].pc # "idle" /\ sender[q].via = via)
    /\ UNCHANGED <<LAST_BOT_MESSAGE_ID, sent, failed>>
    /\ UNCHANGED <<engineVars, storeVars>>

(* bot.delete_message returned (ok) or raised: the warning, the finally   *)
(* clause, and on to the await of the send                                *)
DeleteReturned(p, ok) ==
    /\ sender[p].pc = "delete"
    /\ LET chat == sender[p].chat IN
       /\ LAST_BOT_MESSAGE_ID' = cleanup_finally(LAST_BOT_MESSAGE_ID, chat, ok)
       /\ failed' = IF ok THEN failed
                    ELSE [failed EXCEPT ![chat] = @ \cup {sender[p].target}]
    /\ sender' = [sender EXCEPT ![p].pc = "send", ![p].delete_failed = ~ok]
    /\ UNCHANGED <<sent, deletes, calls, serial, alike>>
    /\ UNCHANGED <<engineVars, storeVars>>

(* message.answer / bot.send_message returned the sent message (ok), or   *)
(* raised and the exception left the call                                 *)
SendReturned(p, ok) ==
    /\ sender[p].pc = "send"
    /\ LET chat == sender[p].chat IN
       IF ok
       THEN /\ sent' = [sent EXCEPT ![chat] = @ + 1]
            /\ LAST_BOT_MESSAGE_ID' = remember_sent(LAST_BOT_MESSAGE_ID, chat, sent[chat] + 1)
            /\ UNCHANGED serial
       ELSE /\ serial' = FALSE
            /\ UNCHANGED <<sent, LAST_BOT_MESSAGE_ID>>
    /\ sender' = [sender EXCEPT ![p] = NoSenderRec]
    /\ UNCHANGED <<deletes, failed, calls, alike>>
    /\ UNCHANGED <<engineVars, storeVars>>

NextLifecycle ==
    \/ \E p \in SenderIds, chat \in Chats, via \in SendFunctions : send_text(p, chat, via)
    \/ \E p \in SenderIds, ok \in BOOLEAN : DeleteReturned(p, ok) \/ SendReturned(p, ok)

SpecLifecycle == Init /\ [][NextLifecycle]_vars


(* ======================= the event store, in detail ==================== *)
(* Table events (lines 77-99) and the two functions on it.  A row is the  *)
(* record of the columns the queries read.  The file outlives the         *)
(* process, so a run can start on the rows of earlier runs.               *)
NullUser    == 0                \* user_id NULL: the update had no user
NullSubject == ""               \* subject NULL
StoreUsers  == {NullUser, 1, 2}
SeedSubjects == <<"a1", "a2", "a3", "a4", "a5">>

(* what the handlers log: a subject with the answer and feedback events   *)
(* (lines 770, 779, 788, 800), none with the others                       *)
EventShapes ==
    {<<EVENT_FAQ_ANSWER, "a1">>, <<EVENT_FAQ_ANSWER, "a6">>,
     <<EVENT_INSTALL_ANSWER, "i1">>, <<EVENT_FEEDBACK_UNHELPFUL, "a1">>,
     <<EVENT_START, NullSubject>>}

StoreEventTypes == {shape[1] : shape \in EventShapes}

(* datetime.isoformat(): fields of fixed width, zero-padded, the most     *)
(* significant first; here the two decimal digits of the day number       *)
isoformat(t) == <<t \div 10, t % 10>>

(* ts >= ? on two TEXT values: the comparison of the strings, character   *)
(* by character                                                           *)
TextGeq(a, b) ==
    \/ a = b
    \/ \E i \in 1..Len(a) :
          /\ i <= Len(b)
          /\ \A j \in 1..(i - 1) : a[j] = b[j]
          /\ a[i] > b[i]

(* a log earlier runs left: one answer event for each of five subjects *)
SeedLog ==
    [i \in 1..Len(SeedSubjects) |->
        [id |-> i, ts |-> isoformat(days), event_type |-> EVENT_FAQ_ANSWER,
         subject |-> SeedSubjects[i], user_id |-> 1]]

(* id INTEGER PRIMARY KEY AUTOINCREMENT: one more than the largest id     *)
(* the table has had                                                      *)
NextId(rs) == IF rs = <<>> THEN 1 ELSE rs[Len(rs)].id + 1

(* the INSERT of record_event (lines 119-125) *)
insert_event(rs, ts, event_type, subject, user_id) ==
    Append(rs, [id |-> NextId(rs), ts |-> ts, event_type |-> event_type,
                subject |-> subject, user_id |-> user_id])

(* the logs a run can start on: the new table, the seed, and the seed    *)
(* with a sixth subject from a second user                                *)
StoredLogs ==
    {<<>>, SeedLog, insert_event(SeedLog, isoformat(days), EVENT_FAQ_ANSWER, "a6", 2)}

(* the rows of the window: WHERE ts >= since *)
InWindow(rs, since) == {i \in 1..Len(rs) : TextGeq(rs[i].ts, since)}

(* the distinct users counted with the rows that have none *)
DistinctUsers_WithNull(rs, W) == Cardinality({rs[i].user_id : i \in W})

(* COUNT(DISTINCT user_id) ... AND user_id IS NOT NULL *)
DistinctUsers(rs, W) ==
    Cardinality({rs[i].user_id : i \in {j \in W : rs[j].user_id # NullUser}})

(* COUNT of one event type in the window *)
TypeCount(rs, W, event_type) ==
    Cardinality({i \in W : rs[i].event_type = event_type})

(* COUNT of one group of GROUP BY subject *)
SubjectCount(rs, W, event_type, subject) ==
    Cardinality({i \in W : rs[i].event_type = event_type /\ rs[i].subject = subject})

(* SELECT subject, COUNT ... GROUP BY subject ORDER BY COUNT DESC   *)
(* LIMIT 5.  The order of groups of equal count is not fixed by the       *)
(* query: the value is the set of the lists it can return, each as the    *)
(* set of its (subject, count) entries.                                   *)
TopSubjects(rs, W, event_type) ==
    LET G == {rs[i].subject : i \in {j \in W : rs[j].event_type = event_type}}
        n(x) == SubjectCount(rs, W, event_type, x)
        k == IF Cardinality(G) < LIMIT THEN Cardinality(G) ELSE LIMIT
    IN  {{<<x, n(x)>> : x \in T} :
            T \in {U \in SUBSET G : /\ Cardinality(U) = k
                                    /\ \A a \in U, b \in G \ U : n(a) >= n(b)}}

(* get_stats (lines 133-198) at instant now *)
get_stats(rs, now) ==
    LET since == isoformat(now - days)
        W == InWindow(rs, since)
    IN  [since        |-> since,
         total        |-> Cardinality(W),
         unique_users |-> DistinctUsers(rs, W),
         by_event     |-> [t \in StoreEventTypes |-> TypeCount(rs, W, t)],
         top_faq      |-> TopSubjects(rs, W, EVENT_FAQ_ANSWER),
         top_install  |-> TopSubjects(rs, W, EVENT_INSTALL_ANSWER),
         helpful      |-> TypeCount(rs, W, EVENT_FEEDBACK_HELPFUL),
         unhelpful    |-> TypeCount(rs, W, EVENT_FEEDBACK_UNHELPFUL)]

(* record_event on the stored log: the row with the time of the call, or, *)
(* the insert or the commit failing, no row                               *)
StoreAppend(shape, user_id, ok) ==
    /\ appends < MaxAppends
    /\ appends' = appends + 1
    /\ rows' = IF ok THEN insert_event(rows, isoformat(clock), shape[1], shape[2], user_id)
               ELSE rows
    /\ UNCHANGED <<clock, session>>
    /\ UNCHANGED <<engineVars, lifecycleVars>>

(* a day passes *)
Tick ==
    /\ clock < MaxClock
    /\ clock' = clock + 1
    /\ UNCHANGED <<rows, appends, session>>
    /\ UNCHANGED <<engineVars, lifecycleVars>>

InitStore ==
    /\ InitSession
    /\ rows \in StoredLogs
    /\ clock = days
    /\ appends = 0
    /\ session = <<>>

NextStore ==
    \/ \E shape \in EventShapes, user_id \in StoreUsers, ok \in BOOLEAN :
          StoreAppend(shape, user_id, ok)
    \/ Tick

SpecStore == InitStore /\ [][NextStore]_vars


(* ===================== the language resolver, in use ================== *)
(* The handlers that write USER_LANG and a handler that calls             *)
(* get_user_lang, with the language codes Telegram can send.              *)
NextLang ==
    \/ \E h \in HandlerIds, key \in Keys, ok \in BOOLEAN : cmd_start(h, key, ok)
    \/ \E h \in HandlerIds, key \in Keys, data \in CallbackData :
          language_select_callback(h, key, data)
    \/ \E h \in HandlerIds, key \in Keys, data \in CallbackData,
          hint \in LanguageCodes, ok \in BOOLEAN :
          support_start_callback(h, key, data, hint, ok)
    \/ \E h \in HandlerIds, ok \in BOOLEAN : SendDone(h, ok)

SpecLang == Init /\ [][NextLang]_vars


(* ================= a user's session on the stored log ================= *)
(* What /start, the topic buttons and the feedback buttons of one user    *)
(* write to the table, for a text bundle with six answers.  A button is   *)
(* <<prefix, rest>> of its callback data, a topic button <<key, "">>.     *)
SessionUser == 1
SessionTopics == {SeedSubjects[i] : i \in DOMAIN SeedSubjects} \cup {"a6"}

(* the session of a user who has selected five topics, one after the      *)
(* other, on the first day                                                *)
SeedSession == [i \in DOMAIN SeedSubjects |-> <<SeedSubjects[i], "">>]

(* log_message_event / log_callback_event: record_event with the user of  *)
(* the update, at the time of the call                                    *)
log_event(rs, now, event_type, user_id, subject, ok) ==
    IF ok THEN insert_event(rs, isoformat(now), event_type, subject, user_id) ELSE rs

Pressed(press, event_type, subject, ok) ==
    /\ appends < MaxPresses
    /\ appends' = appends + 1
    /\ session' = Append(session, press)
    /\ rows' = log_event(rows, clock, event_type, SessionUser, subject, ok)
    /\ UNCHANGED clock
    /\ UNCHANGED <<engineVars, lifecycleVars>>

(* cmd_start: log_message_event(message, EVENT_START) *)
StartLogged(ok) == Pressed(<<"/start", "">>, EVENT_START, NullSubject, ok)

(* main_answer_callback: the subject is the callback data *)
AnswerLogged(data, ok) == Pressed(data, EVENT_FAQ_ANSWER, data[1], ok)

(* subject = call.data[len(PREFIX):] *)
FeedbackSubject(data) == data[2]

(* both buttons logged as helpful *)
FeedbackEvent_AlwaysHelpful(data) == EVENT_FEEDBACK_HELPFUL

(* the handler the prefix of the data routes to logs its own event type *)
FeedbackEvent(data) ==
    IF CallbackRoute(data) = "feedback_helpful_callback" THEN EVENT_FEEDBACK_HELPFUL
    ELSE EVENT_FEEDBACK_UNHELPFUL

(* feedback_helpful_callback / feedback_unhelpful_callback *)
FeedbackLogged(data, ok) ==
    Pressed(data, FeedbackEvent(data), FeedbackSubject(data), ok)

(* the session begins on the new table, or has begun with /start, or     *)
(* with the five topics                                                   *)
InitSessionLog ==
    /\ InitSession
    /\ \/ rows = <<>> /\ session = <<>>
       \/ /\ rows = log_event(<<>>, days, EVENT_START, SessionUser, NullSubject, TRUE)
          /\ session = << <<"/start", "">> >>
       \/ rows = SeedLog /\ session = SeedSession
    /\ clock = days
    /\ appends = 0

NextSessionLog ==
    \/ \E ok \in BOOLEAN : StartLogged(ok)
    \/ \E topic \in {"a1", "a6"}, ok \in BOOLEAN : AnswerLogged(<<topic, "">>, ok)
    \/ \E prefix \in {FEEDBACK_HELPFUL_PREFIX, FEEDBACK_UNHELPFUL_PREFIX}, ok \in BOOLEAN :
          FeedbackLogged(<<prefix, "a1">>, ok)
    \/ Tick

SpecSessionLog == InitSessionLog /\ [][NextSessionLog]_vars


(* ------------------------------ properties ---------------------------- *)
(* a reminder loop is armed: created, not cancelled, not terminated *)
Armed(t) == task[t].pc # "none" /\ ~task[t].cancelled

(* the armed loops of a key among the tasks tk *)
ArmedIn(tk, key) ==
    {t \in TaskIds : tk[t].key = key /\ tk[t].pc # "none" /\ ~tk[t].cancelled}

ArmedFor(key) == ArmedIn(task, key)

(* the step ends the handling of an update by handler h *)
Completes(h) == handler[h].pc # "idle" /\ handler'[h].pc = "idle"

(* the step is the wake-up in which task t starts a reminder *)
Reminds(t) == task[t].pc = "sleep" /\ task'[t].pc = "send"

(* C1: for every key at most one armed reminder loop exists in every      *)
(* reachable state.                                                       *)
C1_AtMostOneArmedLoop == \A k \in Keys : Cardinality(ArmedFor(k)) <= 1

(* C2: after clear_support_pending for a key, no loop of that key that    *)
(* existed before the call starts another reminder (event and prompt); a  *)
(* send already in flight may complete.                                   *)
C2_NoReminderFromLoopArmedBeforeClear ==
    [][\A t \in TaskIds : task[t].stale => ~Reminds(t)]_vars

(* C3: a pending key is in state AwaitingSupportMessage; no inbound event *)
(* moves the state to Idle and leaves the key pending.  Stated of the     *)
(* state in which the handling of an update ends.                         *)
C3_PendingImpliesAwaiting ==
    [][\A h \in HandlerIds :
          LET k == handler[h].key IN
          (Completes(h) /\ handler[h].solo /\ k \in SUPPORT_PENDING')
          => state'[k] = "waiting_message"]_vars

(* C4: in every reachable state reminderCount <= SUPPORT_REMINDER_MAX for *)
(* every key.                                                             *)
C4_CountAtMostMax ==
    \A k \in Keys : SUPPORT_REMINDER_COUNTS[k] <= SUPPORT_REMINDER_MAX

(* the count stands at the maximum while two loops of the key are asleep *)
C4_Witness ==
    \E k \in Keys :
        /\ SUPPORT_REMINDER_COUNTS[k] = SUPPORT_REMINDER_MAX
        /\ Cardinality({t \in ArmedFor(k) : task[t].pc = "sleep"}) >= 2

NotPendingNoCount ==
    \A k \in Keys : k \notin SUPPORT_PENDING => SUPPORT_REMINDER_COUNTS[k] = Absent

StaysPending(k) == k \in SUPPORT_PENDING /\ k \in SUPPORT_PENDING'

(* the step in which a support-start handler, back from its prompt, runs  *)
(* clear_support_pending and schedule_support_reminder for the key        *)
SupportStartRearms(k) ==
    \E h \in HandlerIds :
        /\ handler[h].kind = "support_start_callback"
        /\ handler[h].key = k
        /\ handler[h].pc = "send"
        /\ Completes(h)

(* C5 as stated: over every step between two states in which the key is  *)
(* pending, a support-start received while pending included, the count    *)
(* does not decrease; and a key that is not pending has no count.         *)
C5_CountNeverDecreasesWhilePending ==
    /\ NotPendingNoCount
    /\ [][/\ NotPendingNoCount'
          /\ \A k \in Keys :
                StaysPending(k) => SUPPORT_REMINDER_COUNTS'[k] >= SUPPORT_REMINDER_COUNTS[k]]_vars

(* C5 amended: over every step between two states in which the key is    *)
(* pending the count does not decrease, except the step in which a        *)
(* support-start handler clears and re-arms the key, after which the      *)
(* count is 0; and a key that is not pending has no count.                *)
C5_CountDecreasesOnlyOnSupportStart ==
    /\ NotPendingNoCount
    /\ [][/\ NotPendingNoCount'
          /\ \A k \in Keys :
                StaysPending(k) =>
                    \/ SUPPORT_REMINDER_COUNTS'[k] >= SUPPORT_REMINDER_COUNTS[k]
                    \/ SupportStartRearms(k) /\ SUPPORT_REMINDER_COUNTS'[k] = 0]_vars

(* a pending key with reminders counted, and a support-start handler of   *)
(* the key about to clear and re-arm it                                   *)
C5_Witness ==
    \E k \in SUPPORT_PENDING, h \in HandlerIds :
        /\ SUPPORT_REMINDER_COUNTS[k] >= 1
        /\ handler[h].kind = "support_start_callback"
        /\ handler[h].key = k
        /\ handler[h].pc = "send"

(* C6: a key scheduled once by a support-start, with no other update:    *)
(* once its loop is gone, exactly SUPPORT_REMINDER_MAX reminder events    *)
(* are in the log (unless an append was lost) and the key is pending.     *)
C6_ExactlyMaxReminders ==
    \A k \in Keys :
        ( /\ inbound = 1
          /\ k \in SUPPORT_PENDING
          /\ \A t \in TaskIds : task[t].key # k
          /\ events[EVENT_SUPPORT_REMINDER] = SUPPORT_REMINDER_COUNTS[k] )
        => events[EVENT_SUPPORT_REMINDER] = SUPPORT_REMINDER_MAX

(* C7: a loop whose reminder prompt is being sent, for a pending key with *)
(* reminders left, does not end when the send fails: it sleeps again.     *)
C7_LoopSurvivesSendFailure ==
    [][\A t \in TaskIds :
          ( /\ task[t].pc = "send"
            /\ Armed(t)
            /\ task[t].key \in SUPPORT_PENDING
            /\ CurrentCount(task[t].key) < SUPPORT_REMINDER_MAX
            /\ task'[t].pc # "send" )
          => task'[t].pc = "sleep"]_vars

(* C8: handling a text submitted in AwaitingSupportMessage forwards one   *)
(* payload to the admin chat and ends with the key Idle, not pending and  *)
(* without an armed loop.                                                 *)
C8_TextSubmissionEndsIdle ==
    [][\A h \in HandlerIds :
          LET k == handler[h].key IN
          ( /\ handler[h].kind = "support_message"
            /\ handler[h].text
            /\ handler[h].solo )
          => /\ handler[h].pc = "fwd" /\ handler'[h].pc # "fwd"
                    => adminInbox' = adminInbox + 1 /\ ~Completes(h)
             /\ Completes(h)
                    => /\ state'[k] = "Idle"
                       /\ k \notin SUPPORT_PENDING'
                       /\ ArmedIn(task', k) = {}]_vars

(* C9: handling a support-start received in Idle ends with the key in    *)
(* AwaitingSupportMessage, pending with count 0, and exactly one armed    *)
(* loop.                                                                  *)
C9_SupportStartArmsOneLoop ==
    [][\A h \in HandlerIds :
          LET k == handler[h].key IN
          ( /\ handler[h].kind = "support_start_callback"
            /\ handler[h].raw_state = "Idle"
            /\ handler[h].solo
            /\ Completes(h) )
          => /\ state'[k] = "waiting_message"
             /\ k \in SUPPORT_PENDING'
             /\ SUPPORT_REMINDER_COUNTS'[k] = 0
             /\ Cardinality(ArmedIn(task', k)) = 1]_vars

(* C10: handling a cancel trigger received in AwaitingSupportMessage (the *)
(* button, or the cancel phrase of any loaded language in any case) ends  *)
(* with the key Idle, not pending, without count and armed loop, and      *)
(* forwards nothing.                                                      *)
C10_CancelEndsIdle ==
    [][\A h \in HandlerIds :
          LET k == handler[h].key IN
          ( /\ handler[h].kind \in {"support_cancel", "support_cancel_callback"}
            /\ handler[h].raw_state = "waiting_message"
            /\ handler[h].solo
            /\ Completes(h) )
          => /\ state'[k] = "Idle"
             /\ k \notin SUPPORT_PENDING'
             /\ SUPPORT_REMINDER_COUNTS'[k] = Absent
             /\ ArmedIn(task', k) = {}
             /\ adminInbox' = adminInbox]_vars

(* C11: handling a non-text message received in AwaitingSupportMessage,   *)
(* for a pending key with reminders left, ends with the key still in      *)
(* AwaitingSupportMessage and pending, the count as it was, nothing       *)
(* forwarded, every loop armed before cancelled, and exactly one loop     *)
(* armed: a fresh one, which sleeps a full interval before it reminds.    *)
C11_NonTextReschedules ==
    [][\A h \in HandlerIds :
          LET k == handler[h].key IN
          ( /\ handler[h].kind = "support_message"
            /\ ~handler[h].text
            /\ handler[h].solo
            /\ k \in SUPPORT_PENDING
            /\ CurrentCount(k) < SUPPORT_REMINDER_MAX
            /\ Completes(h) )
          => /\ state'[k] = "waiting_message"
             /\ k \in SUPPORT_PENDING'
             /\ SUPPORT_REMINDER_COUNTS'[k] = SUPPORT_REMINDER_COUNTS[k]
             /\ adminInbox' = adminInbox
             /\ \A t \in ArmedIn(task, k) : t \notin ArmedIn(task', k)
             /\ \E t \in TaskIds : ArmedIn(task', k) = {t} /\ task'[t].pc = "new"]_vars

(* C12: handling a resolved trigger received for a pending key ends with  *)
(* the key Idle, not pending, without a count (an absent count reads as   *)
(* 0 and the next series starts at 0) and without an armed loop, also     *)
(* when the series had reached the maximum and its loop had ended.        *)
C12_ResolvedEndsIdle ==
    [][\A h \in HandlerIds :
          LET k == handler[h].key IN
          ( /\ handler[h].kind = "support_resolved_callback"
            /\ handler[h].raw_pending
            /\ handler[h].solo
            /\ Completes(h) )
          => /\ state'[k] = "Idle"
             /\ k \notin SUPPORT_PENDING'
             /\ SUPPORT_REMINDER_COUNTS'[k] = Absent
             /\ ArmedIn(task', k) = {}]_vars

(* the step starts the handling of an update by handler h *)
Begins(h) == handler[h].pc = "idle" /\ handler'[h].pc # "idle"

(* C14: updates of one key are handled one at a time: no handling of an   *)
(* update starts while an earlier update of the same key is still being   *)
(* handled (suspended in a gateway call).                                 *)
C14_OneAtATimePerKey ==
    [][\A h \in HandlerIds :
          Begins(h) =>
              \A g \in HandlerIds \ {h} :
                  handler[g].pc # "idle" => handler[g].key # handler'[h].key]_vars

(* C15: a failing gateway call does not cut a handler short: a            *)
(* support-start ends with the key pending and a loop armed, a text       *)
(* submission ends in Idle, and no handling ends in AwaitingSupportMessage *)
(* with the key not pending.                                              *)
C15_GatewayFailureNotPropagated ==
    [][\A h \in HandlerIds :
          LET k == handler[h].key IN
          (Completes(h) /\ handler[h].solo)
          => /\ handler[h].kind = "support_start_callback"
                    => k \in SUPPORT_PENDING' /\ ArmedIn(task', k) # {}
             /\ (handler[h].kind = "support_message" /\ handler[h].text)
                    => state'[k] = "Idle"
             /\ k \in Keys => ~(state'[k] = "waiting_message" /\ k \notin SUPPORT_PENDING')]_vars

(* C13: the handling of every update calls record_event once, in the run  *)
(* in which it starts, and ends after the send of one new message to the  *)
(* user; only the handling of an unrecognized button ends after an        *)
(* acknowledgment instead.                                                *)
C13_OneEventOneMessage ==
    [][\A h \in HandlerIds :
          /\ Begins(h) => append' # "none"
          /\ Completes(h) =>
                IF handler[h].kind = "fallback_callback"
                THEN handler[h].pc = "ack"
                ELSE handler[h].pc = "send"]_vars

(* everything but the analytics log *)
Session == <<state, USER_LANG, SUPPORT_PENDING, SUPPORT_REMINDER_TASKS,
             SUPPORT_REMINDER_COUNTS, SUPPORT_LANGS, task, handler,
             adminInbox, inbound>>

(* a step of the program in which an append is stored and which leaves   *)
(* everything but the log as v says                                       *)
StoredTwin(v) ==
    /\ state' = v[1]
    /\ USER_LANG' = v[2]
    /\ SUPPORT_PENDING' = v[3]
    /\ SUPPORT_REMINDER_TASKS' = v[4]
    /\ SUPPORT_REMINDER_COUNTS' = v[5]
    /\ SUPPORT_LANGS' = v[6]
    /\ task' = v[7]
    /\ handler' = v[8]
    /\ adminInbox' = v[9]
    /\ inbound' = v[10]
    /\ append' = "stored"
    /\ Next

(* C19: a step whose record_event call fails leaves the log as it was,    *)
(* and is in everything else (the session state, the pending set, the     *)
(* counts, the loops, the gateway call the handler or loop goes on to)    *)
(* the step the same update or wake-up makes when the append succeeds.    *)
C19_LostAppendChangesNothingElse ==
    [][append' = "lost" =>
          /\ events' = events
          /\ \E v \in {Session'} : ENABLED StoredTwin(v)]_vars

(* a reminder whose event was lost: counted, not in the log, its prompt   *)
(* being sent                                                             *)
C19_Witness ==
    /\ append = "lost"
    /\ \E t \in TaskIds :
          /\ task[t].pc = "send"
          /\ events[EVENT_SUPPORT_REMINDER] < SUPPORT_REMINDER_COUNTS[task[t].key]

(* the bot messages of the chat that were sent and are not the target of  *)
(* any delete attempt so far                                              *)
Live(c) ==
    {m \in 1..sent[c] : \A i \in 1..Len(deletes[c]) : deletes[c][i] # m}

(* C16: in every reachable state, also when the send of a reminder loop   *)
(* and the send of a handler overlap, a chat has at most one bot message  *)
(* that was sent and is not yet the target of a delete attempt, and       *)
(* LAST_BOT_MESSAGE_ID, when set, is the id of the last message sent.     *)
(* Stated of the behaviours in which no two calls of the same function    *)
(* overlap.                                                               *)
C16_AtMostOneLiveMessage ==
    \A c \in Chats :
        ~alike =>
            /\ Cardinality(Live(c)) <= 1
            /\ LAST_BOT_MESSAGE_ID[c] # NoMessage => LAST_BOT_MESSAGE_ID[c] = sent[c]

(* C17: after N >= 1 calls that did not overlap and whose sends           *)
(* succeeded, starting with no stored id, N - 1 deletes were attempted,   *)
(* the i-th on the message of the i-th call, and the stored id is the one *)
(* of the N-th message.                                                   *)
C17_SerialSendsDeleteAllButLast ==
    \A c \in Chats :
        ( /\ serial
          /\ \A p \in SenderIds : sender[p].pc = "idle"
          /\ calls[c] >= 1 )
        => /\ sent[c] = calls[c]
           /\ Len(deletes[c]) = calls[c] - 1
           /\ \A i \in 1..Len(deletes[c]) : deletes[c][i] = i
           /\ LAST_BOT_MESSAGE_ID[c] = calls[c]

(* three calls in a row are over, one of the two deletes having failed *)
C17_Witness ==
    \E c \in Chats :
        /\ serial
        /\ \A p \in SenderIds : sender[p].pc = "idle"
        /\ calls[c] = 3
        /\ Cardinality(failed[c]) = 1

(* C18: whether the delete succeeded or failed, its return clears the     *)
(* stored id and the send is awaited next; the id of a message sent       *)
(* becomes the stored id; and no delete is attempted on a message whose   *)
(* delete has failed.                                                     *)
C18_FailedDeleteIsIgnored ==
    [][/\ \A p \in SenderIds :
             LET c == sender[p].chat IN
             /\ (sender[p].pc = "delete" /\ sender'[p].pc # "delete")
                    => LAST_BOT_MESSAGE_ID'[c] = NoMessage /\ sender'[p].pc = "send"
             /\ (sender[p].pc = "send" /\ sender'[p].pc = "idle" /\ sent'[c] # sent[c])
                    => LAST_BOT_MESSAGE_ID'[c] = sent'[c]
       /\ \A c \in Chats :
             Len(deletes'[c]) > Len(deletes[c])
                 => deletes'[c][Len(deletes'[c])] \notin failed[c]]_vars

(* a call whose delete failed has sent its message, and a later call has  *)
(* attempted the delete of that message                                   *)
C18_Witness ==
    \E c \in Chats :
        /\ failed[c] # {}
        /\ \E i \in 1..Len(deletes[c]) : \A f \in failed[c] : deletes[c][i] > f

(* the row a step has added to the table *)
Appended == rows'[Len(rows')]

(* the instants from the step on at which a query has the added row in    *)
(* its window                                                             *)
QueryTimes == {now \in clock..MaxClock : TextGeq(Appended.ts, isoformat(now - days))}

(* the log grows at its end only, by a row of larger id *)
AppendOnly ==
    /\ Len(rows') = Len(rows) + 1
    /\ SubSeq(rows', 1, Len(rows)) = rows
    /\ \A i \in 1..Len(rows) : rows[i].id < Appended.id

(* report b has one more event than report a in its total and per-type    *)
(* counts, of the type of the added row                                   *)
TotalsRaised(a, b) ==
    /\ b.total = a.total + 1
    /\ \A t \in StoreEventTypes :
          b.by_event[t] = a.by_event[t] + (IF t = Appended.event_type THEN 1 ELSE 0)
    /\ b.helpful = a.helpful
            + (IF Appended.event_type = EVENT_FEEDBACK_HELPFUL THEN 1 ELSE 0)
    /\ b.unhelpful = a.unhelpful
            + (IF Appended.event_type = EVENT_FEEDBACK_UNHELPFUL THEN 1 ELSE 0)

(* C20: the log is append-only with increasing ids, and a stored event    *)
(* raises, in a query whose window holds it, the total by 1, the count of *)
(* its type by 1 and, for an answer type, the count of its subject in the *)
(* ranking of that type by 1; no other count of the report changes.       *)
C20_AppendCountsOnce ==
    [][rows' # rows =>
        /\ AppendOnly
        /\ \A now \in QueryTimes :
            \A a \in {get_stats(rows, now)}, b \in {get_stats(rows', now)} :
              LET W == InWindow(rows, isoformat(now - days))
                  e == Appended
              IN  /\ TotalsRaised(a, b)
                  /\ b.unique_users = a.unique_users
                  /\ IF e.event_type = EVENT_FAQ_ANSWER
                     THEN /\ \A R \in b.top_faq :
                                <<e.subject, SubjectCount(rows, W, e.event_type, e.subject) + 1>> \in R
                          /\ \A R \in b.top_faq : \A x \in R :
                                x[1] # e.subject => \E Q \in a.top_faq : x \in Q
                     ELSE b.top_faq = a.top_faq
                  /\ IF e.event_type = EVENT_INSTALL_ANSWER
                     THEN /\ \A R \in b.top_install :
                                <<e.subject, SubjectCount(rows, W, e.event_type, e.subject) + 1>> \in R
                          /\ \A R \in b.top_install : \A x \in R :
                                x[1] # e.subject => \E Q \in a.top_install : x \in Q
                     ELSE b.top_install = a.top_install]_vars

(* the entries of a ranking after the step are in-window counts: the      *)
(* count before plus one for the subject of the added row, the count      *)
(* before for any other subject                                           *)
RankingRaised(R, event_type, W) ==
    \A x \in R :
        x[2] = SubjectCount(rows, W, event_type, x[1])
                 + (IF Appended.event_type = event_type /\ Appended.subject = x[1]
                    THEN 1 ELSE 0)

(* C20, amended: the log is append-only with increasing ids, and a stored *)
(* event raises, in a query whose window holds it, the total by 1, the    *)
(* count of its type by 1 (with it the helpful or unhelpful tally for a   *)
(* feedback type), the distinct-user count by 1 exactly when its user is  *)
(* not null and has no other event in the window, and, for an answer      *)
(* type, the in-window count of its subject by 1, which the ranking of    *)
(* that type shows whenever the subject is among the five it lists; no    *)
(* other type count and no other subject count changes.                   *)
C20_AppendCountsOnceInWindow ==
    [][rows' # rows =>
        /\ AppendOnly
        /\ \A now \in QueryTimes :
            \A a \in {get_stats(rows, now)}, b \in {get_stats(rows', now)} :
              LET W == InWindow(rows, isoformat(now - days))
                  e == Appended
                  newUser == /\ e.user_id # NullUser
                             /\ \A i \in W : rows[i].user_id # e.user_id
              IN  /\ TotalsRaised(a, b)
                  /\ b.unique_users = a.unique_users + (IF newUser THEN 1 ELSE 0)
                  /\ \A R \in b.top_faq : RankingRaised(R, EVENT_FAQ_ANSWER, W)
                  /\ \A R \in b.top_install : RankingRaised(R, EVENT_INSTALL_ANSWER, W)
                  /\ b.top_faq # {} /\ b.top_install # {}
                  /\ e.event_type # EVENT_FAQ_ANSWER => b.top_faq = a.top_faq
                  /\ e.event_type # EVENT_INSTALL_ANSWER => b.top_install = a.top_install]_vars

(* on the log of six answer subjects, a second event of the sixth has    *)
(* been stored days later, and more days have passed                      *)
C20_Witness ==
    /\ Len(rows) = Len(SeedLog) + 2
    /\ \A i \in {Len(rows) - 1, Len(rows)} :
          /\ rows[i].event_type = EVENT_FAQ_ANSWER
          /\ rows[i].subject = "a6"
    /\ rows[Len(rows)].ts # isoformat(days)
    /\ rows[Len(rows)].ts # isoformat(clock)

(* C25: every reminder loop that is running and not cancelled is the task *)
(* registered for its key in SUPPORT_REMINDER_TASKS.                      *)
C25_LiveLoopIsRegistered ==
    \A t \in TaskIds : Armed(t) => SUPPORT_REMINDER_TASKS[task[t].key] = t

(* C26: for every key, a registered task implies the key is pending, a    *)
(* count entry exists only for a pending key, and a language is stored    *)
(* exactly for the pending keys; so no wake-up of a loop leaves a count   *)
(* entry for a key that is not pending.                                   *)
C26_MapsFollowPending ==
    \A k \in Keys :
        /\ SUPPORT_REMINDER_TASKS[k] # NoTask => k \in SUPPORT_PENDING
        /\ SUPPORT_REMINDER_COUNTS[k] # Absent => k \in SUPPORT_PENDING
        /\ SUPPORT_LANGS[k] # NoLang <=> k \in SUPPORT_PENDING

(* a loop created before the flag of its key was cleared is still asleep  *)
(* and not cancelled, after the key has had reminders                     *)
C26_Witness ==
    \E t \in TaskIds :
        /\ Armed(t)
        /\ task[t].stale
        /\ task[t].pc = "sleep"
        /\ task[t].key \notin SUPPORT_PENDING
        /\ events[EVENT_SUPPORT_REMINDER] >= 1

(* C24: a /stats is answered with the report, and its stats_request event *)
(* recorded, only when the chat or the user is the one administrative     *)
(* id; any other /stats gets the unauthorized answer, with no event and   *)
(* no change of the FSM state, the pending set, the counts, the languages *)
(* or the tasks.                                                          *)
C24_ReportOnlyForAdmin ==
    [][\A h \in HandlerIds :
          (Begins(h) /\ handler'[h].kind = "cmd_stats")
          => LET k == handler'[h].key
                 admin == ADMIN_CHAT_ID \in {k[1], k[2]}
             IN  /\ handler'[h].reply = "stats_report" <=> admin
                 /\ append' # "none" <=> admin
                 /\ ~admin =>
                       /\ handler'[h].reply = "stats_unauthorized"
                       /\ events' = events
                       /\ state' = state
                       /\ SUPPORT_PENDING' = SUPPORT_PENDING
                       /\ SUPPORT_REMINDER_TASKS' = SUPPORT_REMINDER_TASKS
                       /\ SUPPORT_REMINDER_COUNTS' = SUPPORT_REMINDER_COUNTS
                       /\ SUPPORT_LANGS' = SUPPORT_LANGS
                       /\ task' = task]_vars

(* a user whose question is pending, with a loop asleep, has sent /stats  *)
(* and is being sent the unauthorized answer                              *)
C24_Witness ==
    \E h \in HandlerIds :
        /\ handler[h].kind = "cmd_stats"
        /\ handler[h].reply = "stats_unauthorized"
        /\ handler[h].key \in SUPPORT_PENDING
        /\ \E t \in TaskIds : Armed(t) /\ task[t].pc = "sleep"

(* handler h runs: it starts, resumes after an await, or ends *)
Runs(h) == handler[h].pc # handler'[h].pc

(* the handler function that runs in a step of handler h *)
Running(h) == IF Begins(h) THEN handler'[h].kind ELSE handler[h].kind

(* C22: the handling of an unrecognized text (fallback) or button         *)
(* (fallback_callback) answers with the fallback text and changes neither *)
(* the FSM state nor the pending set, the counts, the languages or the    *)
(* tasks of any key; for a button the answer is an acknowledgment of the  *)
(* press, with no send_text call: no delete, no new message, the stored   *)
(* message id unchanged.                                                  *)
C22_FallbackChangesNothing ==
    [][\A h \in HandlerIds :
          (Runs(h) /\ Running(h) \in {"fallback", "fallback_callback"})
          => /\ state' = state
             /\ SUPPORT_PENDING' = SUPPORT_PENDING
             /\ SUPPORT_REMINDER_TASKS' = SUPPORT_REMINDER_TASKS
             /\ SUPPORT_REMINDER_COUNTS' = SUPPORT_REMINDER_COUNTS
             /\ SUPPORT_LANGS' = SUPPORT_LANGS
             /\ task' = task
             /\ (Begins(h) /\ Running(h) = "fallback") => handler'[h].pc = "send"
             /\ Running(h) = "fallback_callback"
                    => /\ Begins(h) => handler'[h].pc = "ack"
                       /\ handler'[h].pc \in {"ack", "idle"}
                       /\ LAST_BOT_MESSAGE_ID' = LAST_BOT_MESSAGE_ID
                       /\ sent' = sent
                       /\ deletes' = deletes]_vars

(* an unrecognized button of a user whose question is pending, in         *)
(* AwaitingSupportMessage, with a loop asleep after a reminder, is being  *)
(* acknowledged                                                           *)
C22_Witness ==
    \E h \in HandlerIds :
        /\ handler[h].kind = "fallback_callback"
        /\ handler[h].pc = "ack"
        /\ state[handler[h].key] = "waiting_message"
        /\ handler[h].key \in SUPPORT_PENDING
        /\ SUPPORT_REMINDER_COUNTS[handler[h].key] >= 1
        /\ \E t \in TaskIds : Armed(t) /\ task[t].pc = "sleep"

(* C23: get_user_lang returns the language the user selected since the    *)
(* last /start, if any, and in every case a language of TEXTS_BY_LANG; a  *)
(* /start removes the selection.                                          *)
C23_ResolvedLanguageIsLoaded ==
    [][\A h \in HandlerIds :
          Begins(h) =>
              LET user == handler'[h].key[2] IN
              /\ handler'[h].kind = "support_start_callback"
                    => /\ handler'[h].lang \in TEXTS_BY_LANG
                       /\ USER_LANG[user] # NoLang => handler'[h].lang = USER_LANG[user]
              /\ handler'[h].kind = "cmd_start" => USER_LANG'[user] = NoLang]_vars

(* how many times the user has sent the buttons of set B *)
Presses(B) == Cardinality({i \in DOMAIN session : session[i] \in B})

(* every update of the session was stored, and every row is in the window *)
(* of a report made now                                                   *)
SessionStoredInWindow ==
    /\ Len(rows) = Len(session)
    /\ InWindow(rows, isoformat(clock - days)) = DOMAIN rows

HelpfulButtons   == {<<FEEDBACK_HELPFUL_PREFIX, x>> : x \in SessionTopics}
UnhelpfulButtons == {<<FEEDBACK_UNHELPFUL_PREFIX, x>> : x \in SessionTopics}

(* the tallies of the report are the numbers of presses *)
TalliesArePresses(r) ==
    /\ r.helpful = Presses(HelpfulButtons)
    /\ r.unhelpful = Presses(UnhelpfulButtons)
    /\ r.by_event[EVENT_FAQ_ANSWER] = Presses({<<x, "">> : x \in SessionTopics})

(* C21: for a session whose updates were all stored and are in the        *)
(* window, the report has the numbers of helpful and unhelpful presses as *)
(* its tallies and lists every selected topic with the number of times it *)
(* was selected.                                                          *)
C21_ReportCountsTheSession ==
    SessionStoredInWindow =>
        \A r \in {get_stats(rows, clock)} :
            /\ TalliesArePresses(r)
            /\ \A x \in SessionTopics :
                  Presses({<<x, "">>}) > 0
                      => \A R \in r.top_faq : <<x, Presses({<<x, "">>})>> \in R

(* C21, amended: for a session on a log that holds nothing else, whose    *)
(* updates were all stored and are in the window, the report has the      *)
(* numbers of helpful and unhelpful presses as its tallies; its ranking   *)
(* lists selected topics only, each with the number of times it was       *)
(* selected, five of them or all when fewer than five were selected, and  *)
(* no topic left out was selected more often than a listed one.           *)
C21_ReportCountsTheSessionTopFive ==
    SessionStoredInWindow =>
        \A r \in {get_stats(rows, clock)} :
            LET selected == {x \in SessionTopics : Presses({<<x, "">>}) > 0}
                k == IF Cardinality(selected) < LIMIT THEN Cardinality(selected) ELSE LIMIT
            IN  /\ TalliesArePresses(r)
                /\ r.top_faq # {}
                /\ \A R \in r.top_faq :
                      /\ Cardinality(R) = k
                      /\ \A e \in R : e[1] \in selected /\ e[2] = Presses({<<e[1], "">>})
                      /\ \A x \in selected :
                            (\A e \in R : e[1] # x)
                                => \A e \in R : e[2] >= Presses({<<x, "">>})
                /\ session = <<<<"/start", "">>, <<"a1", "">>, <<FEEDBACK_UNHELPFUL_PREFIX, "a1">>>>
                      => /\ r.unhelpful = 1
                         /\ r.helpful = 0
                         /\ r.top_faq = {{<<"a1", 1>>}}

(* six topics were selected and a feedback button pressed, all stored and *)
(* in the window, days after the first selection                          *)
C21_Witness ==
    /\ SessionStoredInWindow
    /\ \A x \in SessionTopics : Presses({<<x, "">>}) > 0
    /\ Presses(UnhelpfulButtons) = 1
    /\ clock > days

====
